---- MODULE Spec2Model ----
(***************************************************************************)
(* Model of the PCS nova driver (pcsnovadriver/pcs/driver.py, utils.py):   *)
(* the power-state reconciliation of a VE, the snapshot job and the        *)
(* two-stage pipe jobs.  One worker runs one driver operation at a time    *)
(* against one VE; the hypervisor resolves transitional states in the      *)
(* background.                                                             *)
(***************************************************************************)
EXTENDS Integers, Sequences, FiniteSets, TLC

\* ---------------------------------------------------------------- bounds
MaxTicks == 2

MaxData == 2

PipeCap == 1

MaxDisks == 1

MaxBootDevs == 2
\* Largest number of entries of network_info.
MaxVifs == 1
\* Largest number of volumes in block_device_info.
MaxVolumes == 1
\* Longest disk payload put through the encode and decode stages.
MaxPayload == 3

\* ------------------------------------------------------- hypervisor states
TerminalStates == {"STOPPED", "RUNNING", "PAUSED", "SUSPENDED"}

intermediate_states ==
    {"COMPACTING", "CONTINUING", "DELETING_STATE", "MIGRATING", "PAUSING",
     "RESETTING", "RESTORING", "RESUMING", "SNAPSHOTING", "STARTING",
     "STOPPING", "SUSPENDING", "SUSPENDING_SYNC"}

PCS_STATE_NAMES == TerminalStates \cup
    {"COMPACTING", "CONTINUING", "DELETING_STATE", "MIGRATING", "PAUSING",
     "RESETTING", "RESTORING", "RESUMING", "SNAPSHOTING", "STARTING",
     "STOPPING", "SUSPENDING", "SUSPENDING_SYNC"}

VeKinds == {"PVT_VM", "PVT_CT"}

PowerStates == {"NOSTATE", "RUNNING", "PAUSED", "SHUTDOWN", "CRASHED",
                "SUSPENDED"}

\* States a VE of the given kind can be in: a container is never paused.
KindStates(kind) ==
    IF kind = "PVT_CT" THEN PCS_STATE_NAMES \ {"PAUSED", "PAUSING"}
    ELSE PCS_STATE_NAMES

VARIABLES
    veKind,          \* sdk_ve.get_vm_type()
    veState,         \* state the hypervisor reports for the VE
    ticks,           \* transitional-to-transitional steps seen by the operation
    op,              \* driver operation in progress ("idle" when none)
    pc,              \* position of the worker inside the operation
    result,          \* "none" while running, "ok", or the exception raised
    target,          \* which _set_*_state is running
    kill,            \* the kill argument of _set_stopped_state
    state,           \* local variable `state` of _set_*_state
    todo,            \* hypervisor calls of the selected branch not yet made
    log,             \* hypervisor mutation calls made by this operation
    polledTerminal,  \* a poll of the wait loop returned a terminal state
    slept,           \* a poll returned an intermediate state (time.sleep(1))
    entryState,      \* state of the VE when the operation was called
    req_state,       \* instance['power_state'] given to _sync_ve_state
    disk_format,     \* CONF.pcs_snapshot_disk_format
    cloneState,      \* tmpl_ve: "none", "created" or "deleted"
    deleteCalls,     \* number of tmpl_ve.delete() calls of this job
    inSnapshotVe,    \* _snapshot_ve has been entered
    progress,        \* task states given to update_task_state, in order
    imageUpdated,    \* image_service.update() has returned normally
    exc,             \* exception propagating through the finally clauses
    umountCalls,     \* number of 'ploop umount' commands run
    cvlog,           \* commands of convert_image and their failures, in order
    job,             \* pipe builder in use: uploader, compress, uncompress
    cmds,            \* <<cmd1, cmd2>>, the argv of the two stages
    p1,              \* first stage: "none", "unbound", "running", "exited"
    p2,              \* second stage: "none", "running", "exited"
    x1,              \* exit code of the first stage once exited
    x2,              \* exit code of the second stage once exited
    rets,            \* exit codes collected by wait(): <<ret1, ret2>>
    msg,             \* the message built from ret1 and ret2
    waitOutcome,     \* "none", or how the wait of the job ended
    plog,            \* spawn, kill and wait calls on the stages, in order
    srcLeft,         \* chunks the first stage has still to produce
    pipe1,           \* chunks in the pipe between the stages
    pipe2,           \* chunks in the pipe read by the uploading caller
    lookup,          \* how _get_ve_by_name ended: none, found, absent, error
    reboot_type,     \* reboot_type argument of reboot
    observed,        \* what reboot's own _get_state call returned
    network_info,    \* number of vifs in network_info
    volumes,         \* number of entries of block_device_mapping
    after,           \* statements of the operation still to run, in order
    oplog,           \* calls made by the operation so far, in order
    codec,           \* a payload on its way through the encode and decode stages
    w2               \* a second worker: its VE, its position and its locals

vars == <<veKind, veState, ticks, op, pc, result, target, kill, state, todo,
          log, polledTerminal, slept, entryState, req_state,
          disk_format, cloneState, deleteCalls, inSnapshotVe, progress,
          imageUpdated, exc, umountCalls, cvlog,
          job, cmds, p1, p2, x1, x2, rets, msg, waitOutcome, plog,
          srcLeft, pipe1, pipe2,
          lookup, reboot_type, observed, network_info, volumes, after,
          oplog, codec, w2>>

snapVars == <<disk_format, cloneState, deleteCalls, inSnapshotVe, progress,
              imageUpdated, exc, umountCalls, cvlog>>
procVars == <<p1, p2, x1, x2, srcLeft, pipe1, pipe2>>
pipeVars == <<job, cmds, rets, msg, waitOutcome, plog, procVars>>
jobVars == <<snapVars, pipeVars>>
argVars == <<lookup, reboot_type, observed, network_info, volumes>>
opVars == <<argVars, after, oplog>>
auxVars == <<codec, w2>>

veVars == <<veKind, veState, ticks>>
recVars == <<target, kill, state, todo, log, polledTerminal, slept,
             entryState, req_state>>
driverVars == <<veVars, op, pc, result, recVars, jobVars, opVars>>

\* ------------------------------------------------------ hypervisor calls
\* _start, _unpause -> sdk_ve.start(); _resume -> sdk_ve.resume(); ...
call_start == "start"

call_unpause == "start"

call_resume == "resume"

call_pause == "pause"

call_suspend == "suspend"

call_stop(k) == IF k THEN "stop_ex(PSM_KILL)" ELSE "stop_ex(PSM_ACPI)"

MutationCalls == {"start", "resume", "pause", "suspend",
                  "stop_ex(PSM_KILL)", "stop_ex(PSM_ACPI)"}

\* The hypervisor accepts a call only in a state where it is defined.
Accepts(call, kind, s) ==
    CASE call = "start"   -> s \in {"STOPPED", "PAUSED"}
      [] call = "resume"  -> s = "SUSPENDED"
      [] call = "pause"   -> s = "RUNNING" /\ kind = "PVT_VM"
      [] call = "suspend" -> s = "RUNNING"
      [] OTHER            -> s = "RUNNING"

\* State of the VE once the job of an accepted call has completed.
Effect(call) ==
    CASE call = "start"   -> "RUNNING"
      [] call = "resume"  -> "RUNNING"
      [] call = "pause"   -> "PAUSED"
      [] call = "suspend" -> "SUSPENDED"
      [] OTHER            -> "STOPPED"

\* ------------------------------------------------- the four reconcilers
set_started_state(s) ==
    IF s = "STOPPED" THEN <<call_start>>
    ELSE IF s = "SUSPENDED" THEN <<call_resume>>
    ELSE IF s = "PAUSED" THEN <<call_unpause>>
    ELSE <<>>

\* Variant: the mode of the caller is dropped on the resume-then-stop path.
set_stopped_state_nomode(s, k) ==
    IF s = "RUNNING" THEN <<call_stop(k)>>
    ELSE IF s = "SUSPENDED" THEN <<call_resume, call_stop(FALSE)>>
    ELSE IF s = "PAUSED" THEN <<call_unpause, call_stop(FALSE)>>
    ELSE <<>>

set_stopped_state(s, k) ==
    IF s = "RUNNING" THEN <<call_stop(k)>>
    ELSE IF s = "SUSPENDED" THEN <<call_resume, call_stop(k)>>
    ELSE IF s = "PAUSED" THEN <<call_unpause, call_stop(k)>>
    ELSE <<>>

\* Variant: a stopped VE is started and left running.
set_paused_state_nopause(s) ==
    IF s = "RUNNING" THEN <<call_pause>>
    ELSE IF s = "SUSPENDED" THEN <<call_resume, call_pause>>
    ELSE IF s = "STOPPED" THEN <<call_start>>
    ELSE <<>>

set_paused_state(s) ==
    IF s = "RUNNING" THEN <<call_pause>>
    ELSE IF s = "SUSPENDED" THEN <<call_resume, call_pause>>
    ELSE IF s = "STOPPED" THEN <<call_start, call_pause>>
    ELSE <<>>

set_suspended_state(s) ==
    IF s = "RUNNING" THEN <<call_suspend>>
    ELSE IF s = "PAUSED" THEN <<call_unpause, call_suspend>>
    ELSE IF s = "STOPPED" THEN <<call_start, call_suspend>>
    ELSE <<>>

Branch(t, s, k) ==
    CASE t = "RUNNING"   -> set_started_state(s)
      [] t = "STOPPED"   -> set_stopped_state(s, k)
      [] t = "PAUSED"    -> set_paused_state(s)
      [] t = "SUSPENDED" -> set_suspended_state(s)

\* ------------------------------------------------------------------ Init
DriverInit ==
    /\ veKind \in VeKinds
    /\ veState \in KindStates(veKind)
    /\ ticks = 0
    /\ op = "idle"
    /\ pc = "idle"
    /\ result = "none"
    /\ target = "none"
    /\ kill = FALSE
    /\ state = "none"
    /\ todo = <<>>
    /\ log = <<>>
    /\ polledTerminal = FALSE
    /\ slept = FALSE
    /\ entryState = "none"
    /\ req_state = "none"
    /\ disk_format = "none"
    /\ cloneState = "none"
    /\ deleteCalls = 0
    /\ inSnapshotVe = FALSE
    /\ progress = <<>>
    /\ imageUpdated = FALSE
    /\ exc = "none"
    /\ umountCalls = 0
    /\ cvlog = <<>>
    /\ job = "none"
    /\ cmds = <<>>
    /\ p1 = "none"
    /\ p2 = "none"
    /\ x1 = 0
    /\ x2 = 0
    /\ rets = <<>>
    /\ msg = <<>>
    /\ waitOutcome = "none"
    /\ plog = <<>>
    /\ srcLeft = 0
    /\ pipe1 = 0
    /\ pipe2 = 0
    /\ lookup = "none"
    /\ reboot_type = "none"
    /\ observed = "none"
    /\ network_info = 0
    /\ volumes = 0
    /\ after = <<>>
    /\ oplog = <<>>

\* No payload is being encoded.
CodecIdle ==
    [step |-> 0, payload |-> <<>>, stream |-> <<>>, enc |-> <<>>,
     dec |-> <<>>]

\* A second worker that has no request, on VE number ve (0: there is no
\* second worker) of kind kind in state s.
W2Idle(ve, kind, s) ==
    [ve |-> ve, veKind |-> kind, veState |-> s, ticks |-> 0,
     pc |-> "idle", result |-> "none", target |-> "none", kill |-> FALSE,
     state |-> "none", todo |-> <<>>, log |-> <<>>]

Init ==
    /\ DriverInit
    /\ codec = CodecIdle
    /\ w2 = W2Idle(0, "PVT_VM", "STOPPED")


\* -------------------------------------------------- hypervisor background
\* A transitional state resolves, without external action, into a terminal
\* state or into another transitional state.  The resolution is followed
\* while an operation is reading or changing the state of the VE; between
\* such operations the VE is found in whatever state it was left.
Background ==
    /\ pc \in {"wait", "read", "act", "stmt"}
    /\ veState \in intermediate_states
    /\ \E s \in KindStates(veKind) \ {veState} :
          /\ s \in intermediate_states => ticks < MaxTicks
          /\ veState' = s
          /\ ticks' = IF s \in intermediate_states THEN ticks + 1 ELSE 0
    /\ UNCHANGED <<veKind, op, pc, result>>
    /\ UNCHANGED recVars
    /\ UNCHANGED jobVars
    /\ UNCHANGED opVars
    /\ UNCHANGED auxVars

\* --------------------------------------------------------- entry points
\* Name under which a call of a _set_*_state function appears among the
\* statements of an operation.
reconcile_stmt(t, k) ==
    IF t = "RUNNING" THEN "_set_started_state"
    ELSE IF t = "PAUSED" THEN "_set_paused_state"
    ELSE IF t = "SUSPENDED" THEN "_set_suspended_state"
    ELSE IF k THEN "_set_stopped_state(True)"
    ELSE "_set_stopped_state(False)"

ReconcileStmts ==
    {reconcile_stmt(t, k) : t \in TerminalStates, k \in BOOLEAN}

stmt_target(st) ==
    CHOOSE t \in TerminalStates : \E k \in BOOLEAN : reconcile_stmt(t, k) = st

stmt_kill(st) == st = "_set_stopped_state(True)"

\* A _set_*_state function is entered.
Enter(o, r, t, k) ==
    /\ op' = o
    /\ pc' = "wait"
    /\ result' = "none"
    /\ target' = t
    /\ kill' = k
    /\ state' = "none"
    /\ todo' = <<>>
    /\ log' = <<>>
    /\ polledTerminal' = FALSE
    /\ slept' = FALSE
    /\ entryState' = veState
    /\ req_state' = r
    /\ oplog' = Append(oplog, reconcile_stmt(t, k))
    /\ UNCHANGED veVars
    /\ UNCHANGED jobVars

\* The operation returns or raises res.
Finish(o, r, res) ==
    /\ op' = o
    /\ pc' = "done"
    /\ result' = res
    /\ target' = "none"
    /\ kill' = FALSE
    /\ state' = "none"
    /\ todo' = <<>>
    /\ log' = <<>>
    /\ polledTerminal' = FALSE
    /\ slept' = FALSE
    /\ entryState' = veState
    /\ req_state' = r
    /\ UNCHANGED oplog
    /\ UNCHANGED veVars
    /\ UNCHANGED jobVars

\* The operation goes on with the statements that follow the lookup.
Run(o) ==
    /\ op' = o
    /\ pc' = "stmt"
    /\ result' = "none"
    /\ target' = "none"
    /\ kill' = FALSE
    /\ state' = "none"
    /\ todo' = <<>>
    /\ log' = <<>>
    /\ polledTerminal' = FALSE
    /\ slept' = FALSE
    /\ entryState' = veState
    /\ req_state' = "none"
    /\ UNCHANGED oplog
    /\ UNCHANGED veVars
    /\ UNCHANGED jobVars

\* Arguments of the operation and what it has still to run.
Args(l, rt, n, v, a) ==
    /\ lookup' = l
    /\ reboot_type' = rt
    /\ observed' = "none"
    /\ network_info' = n
    /\ volumes' = v
    /\ after' = a

\* _get_ve_by_name raises InstanceNotFound on PRL_ERR_VM_UUID_NOT_FOUND and
\* lets every other SDK error through.
LookupErrors == {"InstanceNotFound", "PrlSDKError"}

lookup_of(e) == IF e = "InstanceNotFound" THEN "absent" ELSE "error"

get_ve_by_name_raises(o, n) ==
    \E e \in LookupErrors :
        /\ Finish(o, "none", e)
        /\ Args(lookup_of(e), "none", n, 0, <<>>)

\* for vif in network_info: self.vif_driver.plug(...) / unplug(...)
plug_vifs(n) == [i \in 1..n |-> "vif_driver.plug"]

unplug_vifs(n) == [i \in 1..n |-> "vif_driver.unplug"]

\* for vol in block_device_mapping: volume_driver_method('disconnect_volume')
disconnect_volumes(v) == [i \in 1..v |-> "disconnect_volume"]

\* Variant: the NOSTATE early return is missing.
sync_ve_state_noearly(req) ==
    IF req \in {"NOSTATE", "RUNNING"} THEN Enter("sync", req, "RUNNING", FALSE)
    ELSE IF req = "PAUSED" THEN Enter("sync", req, "PAUSED", FALSE)
    ELSE IF req = "SHUTDOWN" THEN Enter("sync", req, "STOPPED", FALSE)
    ELSE IF req = "CRASHED" THEN Enter("sync", req, "STOPPED", TRUE)
    ELSE IF req = "SUSPENDED" THEN Enter("sync", req, "SUSPENDED", FALSE)
    ELSE Finish("sync", req, "ok")

sync_ve_state(req) ==
    IF req = "NOSTATE" THEN Finish("sync", req, "ok")
    ELSE IF req = "RUNNING" THEN Enter("sync", req, "RUNNING", FALSE)
    ELSE IF req = "PAUSED" THEN Enter("sync", req, "PAUSED", FALSE)
    ELSE IF req = "SHUTDOWN" THEN Enter("sync", req, "STOPPED", FALSE)
    ELSE IF req = "CRASHED" THEN Enter("sync", req, "STOPPED", TRUE)
    ELSE IF req = "SUSPENDED" THEN Enter("sync", req, "SUSPENDED", FALSE)
    ELSE Finish("sync", req, "ok")

\* _sync_ve_state is handed the VE; it makes no lookup.
BeginSync ==
    /\ pc = "idle"
    /\ \E req \in PowerStates : sync_ve_state(req)
    /\ Args("none", "none", 0, 0, <<>>)
    /\ UNCHANGED auxVars

pause ==
    IF veKind # "PVT_VM" THEN Finish("pause", "none", "NotImplementedError")
    ELSE Enter("pause", "none", "PAUSED", FALSE)

\* pause, suspend, power_off and get_info take no network_info.
BeginPause ==
    /\ pc = "idle"
    /\ \/ get_ve_by_name_raises("pause", 0)
       \/ pause /\ Args("found", "none", 0, 0, <<>>)
    /\ UNCHANGED auxVars

unpause ==
    IF veKind # "PVT_VM" THEN Finish("unpause", "none", "NotImplementedError")
    ELSE Enter("unpause", "none", "RUNNING", FALSE)

BeginUnpause ==
    /\ pc = "idle"
    /\ \E n \in 0..MaxVifs :
          \/ get_ve_by_name_raises("unpause", n)
          \/ unpause /\ Args("found", "none", n, 0, <<>>)
    /\ UNCHANGED auxVars

BeginSuspend ==
    /\ pc = "idle"
    /\ \/ get_ve_by_name_raises("suspend", 0)
       \/ /\ Enter("suspend", "none", "SUSPENDED", FALSE)
          /\ Args("found", "none", 0, 0, <<>>)
    /\ UNCHANGED auxVars

BeginPowerOff ==
    /\ pc = "idle"
    /\ \/ get_ve_by_name_raises("power_off", 0)
       \/ /\ Enter("power_off", "none", "STOPPED", FALSE)
          /\ Args("found", "none", 0, 0, <<>>)
    /\ UNCHANGED auxVars

\* resume: _set_started_state, then _plug_vifs.
BeginResume ==
    /\ pc = "idle"
    /\ \E n \in 0..MaxVifs :
          \/ get_ve_by_name_raises("resume", n)
          \/ /\ Enter("resume", "none", "RUNNING", FALSE)
             /\ Args("found", "none", n, 0, plug_vifs(n))
    /\ UNCHANGED auxVars

\* power_on: _set_started_state, then _unplug_vifs, then _plug_vifs.
BeginPowerOn ==
    /\ pc = "idle"
    /\ \E n \in 0..MaxVifs :
          \/ get_ve_by_name_raises("power_on", n)
          \/ /\ Enter("power_on", "none", "RUNNING", FALSE)
             /\ Args("found", "none", n, 0, unplug_vifs(n) \o plug_vifs(n))
    /\ UNCHANGED auxVars

\* unplug_vifs: the lookup is not guarded.
BeginUnplugVifs ==
    /\ pc = "idle"
    /\ \E n \in 0..MaxVifs :
          \/ get_ve_by_name_raises("unplug_vifs", n)
          \/ /\ Run("unplug_vifs")
             /\ Args("found", "none", n, 0, unplug_vifs(n))
    /\ UNCHANGED auxVars

\* get_info: sdk_ve.get_state().wait().get_param(), then getters.
BeginGetInfo ==
    /\ pc = "idle"
    /\ \/ get_ve_by_name_raises("get_info", 0)
       \/ /\ Run("get_info")
          /\ Args("found", "none", 0, 0, <<"get_state">>)
    /\ UNCHANGED auxVars

\* destroy: InstanceNotFound of the lookup is caught and destroy returns;
\* any other lookup error propagates.
\* Variant: the VE is stopped before its vifs are unplugged.
destroy_stop_first(n, v) ==
    <<"_set_stopped_state(True)">> \o unplug_vifs(n)
        \o disconnect_volumes(v) \o <<"delete">>

destroy(n, v) ==
    unplug_vifs(n) \o <<"_set_stopped_state(True)">>
        \o disconnect_volumes(v) \o <<"delete">>

BeginDestroy ==
    /\ pc = "idle"
    /\ \E n \in 0..MaxVifs, v \in 0..MaxVolumes :
          \/ \E e \in LookupErrors :
                /\ Finish("destroy", "none",
                          IF e = "InstanceNotFound" THEN "ok" ELSE e)
                /\ Args(lookup_of(e), "none", n, v, <<>>)
          \/ /\ Run("destroy")
             /\ Args("found", "none", n, v, destroy(n, v))
    /\ UNCHANGED auxVars

RebootTypes == {"SOFT", "HARD"}

\* Variant: the state of the VE is not looked at.
reboot_type_only(s, rt, n) ==
    IF rt = "SOFT"
    THEN <<"restart">> \o plug_vifs(n)
    ELSE <<reconcile_stmt("STOPPED", ~(rt = "SOFT")), "_set_started_state">>
             \o plug_vifs(n)

\* The statements reboot runs once it has read the state s.
reboot(s, rt, n) ==
    IF s = "RUNNING" /\ rt = "SOFT"
    THEN <<"restart">> \o plug_vifs(n)
    ELSE <<reconcile_stmt("STOPPED", ~(rt = "SOFT")), "_set_started_state">>
             \o plug_vifs(n)

BeginReboot ==
    /\ pc = "idle"
    /\ \E n \in 0..MaxVifs, rt \in RebootTypes :
          \/ /\ get_ve_by_name_raises("reboot", n)
          \/ /\ Run("reboot")
             /\ Args("found", rt, n, 0, <<"_get_state">>)
    /\ UNCHANGED auxVars

\* if self._get_state(sdk_ve) == pc.VMS_RUNNING and reboot_type == 'SOFT':
\* one state read, without the wait loop, and the branch taken on it; the
\* else branch goes straight into _set_stopped_state.
RebootGetState ==
    /\ pc = "stmt"
    /\ op = "reboot"
    /\ after = <<"_get_state">>
    /\ \/ /\ observed' = veState
          /\ LET stmts == reboot(veState, reboot_type, network_info)
             IN IF Head(stmts) \in ReconcileStmts
                THEN /\ Enter(op, req_state, stmt_target(Head(stmts)),
                              stmt_kill(Head(stmts)))
                     /\ after' = Tail(stmts)
                ELSE /\ after' = stmts
                     /\ UNCHANGED <<op, pc, result, oplog>>
                     /\ UNCHANGED <<veVars, recVars, jobVars>>
       \/ /\ pc' = "done"
          /\ result' = "PrlSDKError"
          /\ UNCHANGED <<op, observed, after, oplog>>
          /\ UNCHANGED <<veVars, recVars, jobVars>>
    /\ UNCHANGED <<lookup, reboot_type, network_info, volumes>>
    /\ UNCHANGED auxVars

\* ------------------------------------------ configuration edit functions
\* _apply_flavor: the quota setters are for containers only; the root disk
\* is resized after the commit.
apply_flavor(kind, resize_root_disk) ==
    <<"begin_edit", "set_cpu_count", "set_ram_size">>
        \o (IF kind = "PVT_CT"
            THEN <<"set_resource(PCR_PHYSPAGES)",
                   "set_resource(PCR_SWAPPAGES)">>
            ELSE <<>>)
        \o <<"commit">>
        \o (IF resize_root_disk THEN <<"resize_image">> ELSE <<>>)

BeginApplyFlavor ==
    /\ pc = "idle"
    /\ \E r \in BOOLEAN :
          /\ Run("_apply_flavor")
          /\ Args("none", "none", 0, 0, apply_flavor(veKind, r))
    /\ UNCHANGED auxVars

set_boot_device ==
    <<"begin_edit", "create_boot_dev", "set_type", "set_index",
      "set_sequence_index", "set_in_use", "commit">>

BeginSetBootDevice ==
    /\ pc = "idle"
    /\ Run("_set_boot_device")
    /\ Args("none", "none", 0, 0, set_boot_device)
    /\ UNCHANGED auxVars

\* get_vnc_console: the mode is set only when it is not PRD_AUTO; the port
\* is then read.
VncModes == {"PRD_AUTO", "PRD_DISABLED"}

get_vnc_console(vncmode) ==
    (IF vncmode # "PRD_AUTO"
     THEN <<"begin_edit", "set_vncmode", "commit", "refresh_config">>
     ELSE <<>>) \o <<"get_vncport">>

BeginGetVncConsole ==
    /\ pc = "idle"
    /\ \/ get_ve_by_name_raises("get_vnc_console", 0)
       \/ \E m \in VncModes :
             /\ Run("get_vnc_console")
             /\ Args("found", "none", 0, 0, get_vnc_console(m))
    /\ UNCHANGED auxVars

\* _reset_network: every adapter is fetched, the ones that are not routed
\* are removed.
AdapterTypes == {"PNA_ROUTED", "PNA_BRIDGED_ETHERNET"}

AdapterLists ==
    UNION {[1..n -> AdapterTypes] : n \in 0..MaxVifs}

RECURSIVE remove_adapters(_)
remove_adapters(devs) ==
    IF devs = <<>> THEN <<>>
    ELSE <<"get_dev_by_type">>
             \o (IF Head(devs) # "PNA_ROUTED" THEN <<"remove">> ELSE <<>>)
             \o remove_adapters(Tail(devs))

reset_network(devs) ==
    <<"begin_edit">> \o remove_adapters(devs) \o <<"commit">>

BeginResetNetwork ==
    /\ pc = "idle"
    /\ \E devs \in AdapterLists :
          /\ Run("_reset_network")
          /\ Args("none", "none", 0, 0, reset_network(devs))
    /\ UNCHANGED auxVars

\* ------------------------------------------- statements of an operation
\* Calls that are one statement: made, waited for, and either done or
\* raising.
\* Calls that change the configuration of the VE, and the reads made next
\* to them.
EditSetters ==
    {"set_cpu_count", "set_ram_size", "set_resource(PCR_PHYSPAGES)",
     "set_resource(PCR_SWAPPAGES)", "create_boot_dev", "set_type",
     "set_index", "set_sequence_index", "set_in_use", "set_vncmode",
     "remove"}

EditCalls ==
    EditSetters \cup {"begin_edit", "commit", "refresh_config",
                      "get_vncport", "get_dev_by_type", "resize_image"}

SimpleCalls == {"vif_driver.plug", "vif_driver.unplug", "disconnect_volume",
                "delete", "restart", "get_state"} \cup EditCalls

call_error(c) ==
    IF c \in {"vif_driver.plug", "vif_driver.unplug", "disconnect_volume"}
    THEN "Exception"
    ELSE "PrlSDKError"

StmtCall ==
    /\ pc = "stmt"
    /\ after # <<>>
    /\ Head(after) \in SimpleCalls
    /\ oplog' = Append(oplog, Head(after))
    /\ \/ /\ Head(after) = "restart" => veState = "RUNNING"
          /\ after' = Tail(after)
          /\ UNCHANGED <<pc, result>>
       \/ /\ pc' = "done"
          /\ result' = call_error(Head(after))
          /\ UNCHANGED after
    /\ UNCHANGED <<op, argVars>>
    /\ UNCHANGED <<veVars, recVars, jobVars>>
    /\ UNCHANGED auxVars

\* The next statement is a call of a _set_*_state function.
StmtReconcile ==
    /\ pc = "stmt"
    /\ after # <<>>
    /\ Head(after) \in ReconcileStmts
    /\ Enter(op, req_state, stmt_target(Head(after)), stmt_kill(Head(after)))
    /\ after' = Tail(after)
    /\ UNCHANGED argVars
    /\ UNCHANGED auxVars

\* No statement is left: the operation returns.
StmtsDone ==
    /\ pc = "stmt"
    /\ after = <<>>
    /\ pc' = "done"
    /\ result' = "ok"
    /\ UNCHANGED <<op, opVars>>
    /\ UNCHANGED <<veVars, recVars, jobVars>>
    /\ UNCHANGED auxVars

\* ------------------------------------------------ _wait_intermediate_state
\* One iteration of the loop: poll, leave on a non-intermediate state,
\* otherwise sleep and poll again.
\* Variant: STOPPING is missing from the list the loop waits on.
wait_done_short(s) == s \notin (intermediate_states \ {"STOPPING"})

wait_done(s) == s \notin intermediate_states

\* Variant: the loop gives up with an error on the second poll that finds
\* the VE still in an intermediate state.
WaitPoll_timeout ==
    /\ pc = "wait"
    /\ IF wait_done(veState)
       THEN /\ pc' = "read"
            /\ polledTerminal' = (veState \in TerminalStates)
            /\ UNCHANGED <<slept, result>>
       ELSE IF slept
       THEN /\ pc' = "done"
            /\ result' = "Timeout"
            /\ UNCHANGED <<slept, polledTerminal>>
       ELSE /\ pc' = "wait"
            /\ slept' = TRUE
            /\ UNCHANGED <<polledTerminal, result>>
    /\ UNCHANGED <<op, target, kill, state, todo, log, entryState,
                   req_state>>
    /\ UNCHANGED veVars
    /\ UNCHANGED jobVars
    /\ UNCHANGED opVars
    /\ UNCHANGED auxVars

WaitPoll ==
    /\ pc = "wait"
    /\ IF wait_done(veState)
       THEN /\ pc' = "read"
            /\ polledTerminal' = (veState \in TerminalStates)
            /\ UNCHANGED slept
       ELSE /\ pc' = "wait"
            /\ slept' = TRUE
            /\ UNCHANGED polledTerminal
    /\ UNCHANGED <<op, result, target, kill, state, todo, log, entryState,
                   req_state>>
    /\ UNCHANGED veVars
    /\ UNCHANGED jobVars
    /\ UNCHANGED opVars
    /\ UNCHANGED auxVars

\* _get_state raises the SDK error of a failed get_state call.
GetStateFails ==
    /\ pc \in {"wait", "read"}
    /\ pc' = "done"
    /\ result' = "PrlSDKError"
    /\ UNCHANGED <<op, target, kill, state, todo, log, polledTerminal,
                   slept, entryState, req_state>>
    /\ UNCHANGED veVars
    /\ UNCHANGED jobVars
    /\ UNCHANGED opVars
    /\ UNCHANGED auxVars

\* state = self._get_state(sdk_ve), then the if/elif chain picks the branch.
ReadState ==
    /\ pc = "read"
    /\ state' = veState
    /\ todo' = Branch(target, veState, kill)
    /\ pc' = "act"
    /\ UNCHANGED <<op, result, target, kill, log, polledTerminal, slept,
                   entryState, req_state>>
    /\ UNCHANGED veVars
    /\ UNCHANGED jobVars
    /\ UNCHANGED opVars
    /\ UNCHANGED auxVars

\* The next call of the branch, waited for to completion.
IssueCall ==
    /\ pc = "act"
    /\ todo # <<>>
    /\ Accepts(Head(todo), veKind, veState)
    /\ log' = Append(log, Head(todo))
    /\ oplog' = Append(oplog, Head(todo))
    /\ todo' = Tail(todo)
    /\ veState' = Effect(Head(todo))
    /\ ticks' = 0
    /\ UNCHANGED <<argVars, after>>
    /\ UNCHANGED <<veKind, op, pc, result, target, kill, state,
                   polledTerminal, slept, entryState, req_state>>
    /\ UNCHANGED jobVars
    /\ UNCHANGED auxVars

\* Variant: a failed call is made a second time before its error is let
\* through.
IssueCallFails_retries ==
    /\ pc = "act"
    /\ todo # <<>>
    /\ log' = Append(log, Head(todo))
    /\ oplog' = Append(oplog, Head(todo))
    /\ IF \E i \in 1..Len(log) : log[i] = Head(todo)
       THEN pc' = "done" /\ result' = "PrlSDKError"
       ELSE UNCHANGED <<pc, result>>
    /\ UNCHANGED <<argVars, after>>
    /\ UNCHANGED <<op, target, kill, state, todo, polledTerminal, slept,
                   entryState, req_state>>
    /\ UNCHANGED veVars
    /\ UNCHANGED jobVars
    /\ UNCHANGED auxVars

\* The call is made and its job fails: the SDK error propagates.
IssueCallFails ==
    /\ pc = "act"
    /\ todo # <<>>
    /\ log' = Append(log, Head(todo))
    /\ oplog' = Append(oplog, Head(todo))
    /\ pc' = "done"
    /\ result' = "PrlSDKError"
    /\ UNCHANGED <<argVars, after>>
    /\ UNCHANGED <<op, target, kill, state, todo, polledTerminal, slept,
                   entryState, req_state>>
    /\ UNCHANGED veVars
    /\ UNCHANGED jobVars
    /\ UNCHANGED auxVars

\* The _set_*_state function returns; the operation returns with it when
\* no statement follows the call.
ReconcileReturns ==
    /\ pc = "act"
    /\ todo = <<>>
    /\ IF after = <<>>
       THEN pc' = "done" /\ result' = "ok"
       ELSE pc' = "stmt" /\ UNCHANGED result
    /\ UNCHANGED opVars
    /\ UNCHANGED <<op, target, kill, state, todo, log, polledTerminal,
                   slept, entryState, req_state>>
    /\ UNCHANGED veVars
    /\ UNCHANGED jobVars
    /\ UNCHANGED auxVars

\* =========================================================== pipe jobs
\* Exit codes of a stage; a negative code is a death by signal.
ExitCodes == {-9, 0, 2}

RootHelpers == {"", "sudo"}

shlex_split(h) == IF h = "" THEN <<>> ELSE <<h>>

compress_cmds == << <<"tar", "cO", "-C", "src", ".">>,
                    <<"prlcompress", "-p">> >>

\* Variant: the two stages of the decoder are started in the other order.
uncompress_cmds_reversed(root_helper) ==
    << shlex_split(root_helper) \o <<"tar", "x", "-C", "dst">>,
       <<"prlcompress", "-u">> >>

uncompress_cmds(root_helper) ==
    << <<"prlcompress", "-u">>,
       shlex_split(root_helper) \o <<"tar", "x", "-C", "dst">> >>

uploader_cmds == << <<"tar", "cO", "-C", "hdd_path", ".">>,
                    <<"prlcompress", "-p">> >>

\* '%r returned %d' % (cmd, ret), after the separator written before it.
Fragment(sep, cmd, ret) == [sep |-> sep, argv |-> cmd, code |-> ret]

\* Variant: the first exit code is collected but not looked at.
wait_msg_second_only(cmd1, ret1, cmd2, ret2) ==
    IF ret2 # 0 THEN <<Fragment(", ", cmd2, ret2)>> ELSE <<>>

\* Variant: the second fragment is assigned, not appended.
wait_msg_assign(cmd1, ret1, cmd2, ret2) ==
    IF ret2 # 0 THEN <<Fragment(", ", cmd2, ret2)>>
    ELSE IF ret1 # 0 THEN <<Fragment("", cmd1, ret1)>> ELSE <<>>

\* msg = ""; if ret1: msg = ...; if ret2: msg += ', ...'
wait_msg(cmd1, ret1, cmd2, ret2) ==
    LET m1 == IF ret1 # 0 THEN <<Fragment("", cmd1, ret1)>> ELSE <<>>
    IN  IF ret2 # 0 THEN m1 \o <<Fragment(", ", cmd2, ret2)>> ELSE m1

\* An exception leaves the pipe builder: inside snapshot it unwinds to the
\* finally clause of snapshot, otherwise it reaches the caller.
Propagate(e) ==
    IF op = "snapshot"
    THEN pc' = "snap_delete" /\ exc' = e /\ UNCHANGED result
    ELSE pc' = "done" /\ result' = e /\ UNCHANGED exc

snapRest == <<disk_format, cloneState, deleteCalls, inSnapshotVe, progress,
              imageUpdated, umountCalls, cvlog>>

BeginCompress ==
    /\ pc = "idle"
    /\ op' = "compress_ploop"
    /\ pc' = "pj_open"
    /\ job' = "compress"
    /\ cmds' = compress_cmds
    /\ srcLeft' \in 0..MaxData
    /\ UNCHANGED <<result, rets, msg, waitOutcome, plog, p1, p2, x1, x2,
                   pipe1, pipe2>>
    /\ UNCHANGED <<veVars, recVars, snapVars>>
    /\ UNCHANGED opVars
    /\ UNCHANGED auxVars

BeginUncompress ==
    /\ pc = "idle"
    /\ \E root_helper \in RootHelpers : cmds' = uncompress_cmds(root_helper)
    /\ op' = "uncompress_ploop"
    /\ pc' = "pj_open"
    /\ job' = "uncompress"
    /\ srcLeft' \in 0..MaxData
    /\ UNCHANGED <<result, rets, msg, waitOutcome, plog, p1, p2, x1, x2,
                   pipe1, pipe2>>
    /\ UNCHANGED <<veVars, recVars, snapVars>>
    /\ UNCHANGED opVars
    /\ UNCHANGED auxVars

\* dst_file = open(dst, 'w') / src_file = open(src)
PjOpen ==
    /\ pc = "pj_open"
    /\ \/ pc' = "pj_start1" /\ UNCHANGED result
       \/ pc' = "done" /\ result' = "IOError"
    /\ UNCHANGED <<op, veVars, recVars, snapVars, pipeVars>>
    /\ UNCHANGED opVars
    /\ UNCHANGED auxVars

\* p1 = subprocess.Popen(cmd1, ...)
PjStart1 ==
    /\ pc = "pj_start1"
    /\ plog' = Append(plog, "spawn1")
    /\ p1' = "running"
    /\ pc' = "pj_start2"
    /\ UNCHANGED <<op, result, job, cmds, rets, msg, waitOutcome, p2, x1, x2,
                   srcLeft, pipe1, pipe2>>
    /\ UNCHANGED <<veVars, recVars, snapVars>>
    /\ UNCHANGED opVars
    /\ UNCHANGED auxVars

\* Popen of the first stage raises.  compress_ploop closes dst_file in a
\* bare except and goes on with p1 unbound; the others let it propagate.
PjStart1Fails ==
    /\ pc = "pj_start1"
    /\ plog' = plog \o <<"spawn1", "spawn1_failed">>
    /\ IF job = "compress"
       THEN pc' = "pj_start2" /\ p1' = "unbound" /\ UNCHANGED <<result, exc>>
       ELSE Propagate("OSError") /\ UNCHANGED p1
    /\ UNCHANGED <<op, job, cmds, rets, msg, waitOutcome, p2, x1, x2,
                   srcLeft, pipe1, pipe2>>
    /\ UNCHANGED <<veVars, recVars, snapRest>>
    /\ UNCHANGED opVars
    /\ UNCHANGED auxVars

\* p2 = subprocess.Popen(cmd2, stdin=p1.stdout, ...); p1.stdout.close()
PjStart2 ==
    /\ pc = "pj_start2"
    /\ p1 = "running" \/ p1 = "exited"
    /\ plog' = Append(plog, "spawn2")
    /\ p2' = "running"
    /\ pc' = IF job = "uploader" THEN "sv_cploop_upload" ELSE "pj_wait1"
    /\ UNCHANGED <<op, result, job, cmds, rets, msg, waitOutcome, p1, x1, x2,
                   srcLeft, pipe1, pipe2>>
    /\ UNCHANGED <<veVars, recVars, snapVars>>
    /\ UNCHANGED opVars
    /\ UNCHANGED auxVars

\* Variant: the start failure is re-raised with the first stage left alone.
PjStart2Fails_nokill ==
    /\ pc = "pj_start2"
    /\ p1 = "running" \/ p1 = "exited"
    /\ plog' = plog \o <<"spawn2", "spawn2_failed">>
    /\ Propagate("OSError")
    /\ UNCHANGED <<op, job, cmds, rets, msg, waitOutcome, p1, p2, x1, x2,
                   srcLeft, pipe1, pipe2>>
    /\ UNCHANGED <<veVars, recVars, snapRest>>
    /\ UNCHANGED opVars
    /\ UNCHANGED auxVars

\* Popen of the second stage raises: p1.kill(); p1.wait(); raise
PjStart2Fails ==
    /\ pc = "pj_start2"
    /\ p1 = "running" \/ p1 = "exited"
    /\ plog' = plog \o <<"spawn2", "spawn2_failed", "kill1", "wait1">>
    /\ p1' = "exited"
    /\ x1' = IF p1 = "exited" THEN x1 ELSE -9
    /\ Propagate("OSError")
    /\ UNCHANGED <<op, job, cmds, rets, msg, waitOutcome, p2, x2,
                   srcLeft, pipe1, pipe2>>
    /\ UNCHANGED <<veVars, recVars, snapRest>>
    /\ UNCHANGED opVars
    /\ UNCHANGED auxVars

\* Variant: after the swallowed failure the second Popen is still called.
PjStart2Unbound_spawns ==
    /\ pc = "pj_start2"
    /\ p1 = "unbound"
    /\ plog' = plog \o <<"spawn2", "spawn2_failed">>
    /\ Propagate("OSError")
    /\ UNCHANGED <<op, job, cmds, rets, msg, waitOutcome, procVars>>
    /\ UNCHANGED <<veVars, recVars, snapRest>>
    /\ UNCHANGED opVars
    /\ UNCHANGED auxVars

\* compress_ploop after a swallowed start failure: p1.stdout and then
\* p1.kill() in the except clause both raise on the unbound name.
PjStart2Unbound ==
    /\ pc = "pj_start2"
    /\ p1 = "unbound"
    /\ Propagate("UnboundLocalError")
    /\ UNCHANGED <<op, veVars, recVars, snapRest, pipeVars>>
    /\ UNCHANGED opVars
    /\ UNCHANGED auxVars

\* --------------------------------------------------- the stage processes
P1Write ==
    /\ p1 = "running"
    /\ srcLeft > 0
    /\ pipe1 < PipeCap
    /\ p2 # "exited"
    /\ srcLeft' = srcLeft - 1
    /\ pipe1' = pipe1 + 1
    /\ UNCHANGED <<op, pc, result, veVars, recVars, snapVars>>
    /\ UNCHANGED <<job, cmds, rets, msg, waitOutcome, plog, p1, p2, x1, x2,
                   pipe2>>
    /\ UNCHANGED opVars
    /\ UNCHANGED auxVars

\* The first stage has written everything and exits.
P1Finish ==
    /\ p1 = "running"
    /\ srcLeft = 0
    /\ x1' \in ExitCodes
    /\ p1' = "exited"
    /\ UNCHANGED <<op, pc, result, veVars, recVars, snapVars>>
    /\ UNCHANGED <<job, cmds, rets, msg, waitOutcome, plog, p2, x2,
                   srcLeft, pipe1, pipe2>>
    /\ UNCHANGED opVars
    /\ UNCHANGED auxVars

\* The first stage writes to a pipe whose reader is gone, or dies for a
\* reason of its own, before it has written everything.
P1Dies ==
    /\ p1 = "running"
    /\ srcLeft > 0
    /\ x1' \in ExitCodes \ {0}
    /\ p1' = "exited"
    /\ UNCHANGED <<op, pc, result, veVars, recVars, snapVars>>
    /\ UNCHANGED <<job, cmds, rets, msg, waitOutcome, plog, p2, x2,
                   srcLeft, pipe1, pipe2>>
    /\ UNCHANGED opVars
    /\ UNCHANGED auxVars

\* The second stage reads a chunk and writes it on: to the pipe the caller
\* reads (uploader), which may be full, or to a file.
P2Move ==
    /\ p2 = "running"
    /\ pipe1 > 0
    /\ job = "uploader" => pipe2 < PipeCap
    /\ pipe1' = pipe1 - 1
    /\ pipe2' = IF job = "uploader" THEN pipe2 + 1 ELSE pipe2
    /\ UNCHANGED <<op, pc, result, veVars, recVars, snapVars>>
    /\ UNCHANGED <<job, cmds, rets, msg, waitOutcome, plog, p1, p2, x1, x2,
                   srcLeft>>
    /\ UNCHANGED opVars
    /\ UNCHANGED auxVars

\* The second stage has read end of input, written everything, and exits.
P2Finish ==
    /\ p2 = "running"
    /\ p1 = "exited"
    /\ pipe1 = 0
    /\ x2' \in ExitCodes
    /\ p2' = "exited"
    /\ UNCHANGED <<op, pc, result, veVars, recVars, snapVars>>
    /\ UNCHANGED <<job, cmds, rets, msg, waitOutcome, plog, p1, x1,
                   srcLeft, pipe1, pipe2>>
    /\ UNCHANGED opVars
    /\ UNCHANGED auxVars

\* The second stage dies before the end of its input.
P2Dies ==
    /\ p2 = "running"
    /\ ~(p1 = "exited" /\ pipe1 = 0)
    /\ x2' \in ExitCodes \ {0}
    /\ p2' = "exited"
    /\ UNCHANGED <<op, pc, result, veVars, recVars, snapVars>>
    /\ UNCHANGED <<job, cmds, rets, msg, waitOutcome, plog, p1, x1,
                   srcLeft, pipe1, pipe2>>
    /\ UNCHANGED opVars
    /\ UNCHANGED auxVars

\* ------------------------------------------------------------- wait()
\* ret1 = p1.wait()
PjWait1 ==
    /\ pc = "pj_wait1"
    /\ p1 = "exited"
    /\ rets' = <<x1>>
    /\ plog' = Append(plog, "wait1")
    /\ pc' = "pj_wait2"
    /\ UNCHANGED <<op, result, veVars, recVars, snapVars>>
    /\ UNCHANGED <<job, cmds, msg, waitOutcome, procVars>>
    /\ UNCHANGED opVars
    /\ UNCHANGED auxVars

\* ret2 = p2.wait(), then the message is built and raised if not empty.
PjWait2 ==
    /\ pc = "pj_wait2"
    /\ p2 = "exited"
    /\ rets' = Append(rets, x2)
    /\ plog' = Append(plog, "wait2")
    /\ msg' = wait_msg(cmds[1], rets[1], cmds[2], x2)
    /\ IF msg' # <<>>
       THEN /\ waitOutcome' = "raised"
            /\ Propagate("Exception(msg)")
       ELSE /\ waitOutcome' = "returned"
            /\ IF op = "snapshot"
               THEN pc' = "snap_delete" /\ UNCHANGED <<result, exc>>
               ELSE pc' = "done" /\ result' = "ok" /\ UNCHANGED exc
    /\ UNCHANGED <<op, veVars, recVars, snapRest>>
    /\ UNCHANGED <<job, cmds, procVars>>
    /\ UNCHANGED opVars
    /\ UNCHANGED auxVars

\* ============================================================ snapshot
DiskFormats == {"ploop", "cploop", "qcow2"}

BootDevTypes == {"PDE_HARD_DISK", "PDE_OPTICAL_DISK"}

BootDevLists ==
    UNION {[1..n -> BootDevTypes] : n \in 0..MaxBootDevs}

\* utils._get_ct_boot_disk: <<index>> of the disk, <<>> when it raises.
get_ct_boot_disk(hdd_count) == IF hdd_count < 1 THEN <<>> ELSE <<0>>

\* utils._get_vm_boot_disk: the first hard disk of the boot device list.
get_vm_boot_disk(bootdevs) ==
    LET hdds == {i \in 1..Len(bootdevs) : bootdevs[i] = "PDE_HARD_DISK"}
    IN  IF hdds = {} THEN <<>>
        ELSE <<CHOOSE i \in hdds : \A j \in hdds : i <= j>>

get_boot_disk(kind, hdd_count, bootdevs) ==
    IF kind = "PVT_VM" THEN get_vm_boot_disk(bootdevs)
    ELSE get_ct_boot_disk(hdd_count)

BeginSnapshot ==
    /\ pc = "idle"
    /\ op' = "snapshot"
    /\ pc' = "snap_lookup"
    /\ disk_format' \in DiskFormats
    /\ UNCHANGED <<result, cloneState, deleteCalls, inSnapshotVe, progress,
                   imageUpdated, exc, umountCalls, cvlog>>
    /\ UNCHANGED <<veVars, recVars, pipeVars>>
    /\ UNCHANGED opVars
    /\ UNCHANGED auxVars

\* sdk_ve = self._get_ve_by_name(instance['name'])
SnapLookup ==
    /\ pc = "snap_lookup"
    /\ \/ pc' = "snap_pending" /\ lookup' = "found" /\ UNCHANGED result
       \/ \E e \in LookupErrors :
             pc' = "done" /\ result' = e /\ lookup' = lookup_of(e)
    /\ UNCHANGED <<reboot_type, observed, network_info, volumes, after,
                   oplog>>
    /\ UNCHANGED <<op, veVars, recVars, snapVars, pipeVars>>
    /\ UNCHANGED auxVars

\* update_task_state(task_state=task_states.IMAGE_PENDING_UPLOAD)
SnapPending ==
    /\ pc = "snap_pending"
    /\ progress' = Append(progress, "IMAGE_PENDING_UPLOAD")
    /\ \/ pc' = "snap_clone" /\ UNCHANGED result
       \/ pc' = "done" /\ result' = "UnexpectedTaskStateError"
    /\ UNCHANGED <<op, disk_format, cloneState, deleteCalls, inSnapshotVe,
                   imageUpdated, exc, umountCalls, cvlog>>
    /\ UNCHANGED <<veVars, recVars, pipeVars>>
    /\ UNCHANGED opVars
    /\ UNCHANGED auxVars

\* tmpl_ve = sdk_ve.clone_ex(...).wait().get_param()
SnapClone ==
    /\ pc = "snap_clone"
    /\ \/ pc' = "snap_chown" /\ cloneState' = "created" /\ UNCHANGED result
       \/ pc' = "done" /\ result' = "PrlSDKError" /\ UNCHANGED cloneState
    /\ UNCHANGED <<op, disk_format, deleteCalls, inSnapshotVe, progress,
                   imageUpdated, exc, umountCalls, cvlog>>
    /\ UNCHANGED <<veVars, recVars, pipeVars>>
    /\ UNCHANGED opVars
    /\ UNCHANGED auxVars

\* utils.execute('chown', '-R', 'nova:nova', ve_dir, run_as_root=True),
\* outside the try: on success _snapshot_ve is entered.
SnapChown ==
    /\ pc = "snap_chown"
    /\ \/ pc' = "sv_image" /\ inSnapshotVe' = TRUE /\ UNCHANGED result
       \/ /\ pc' = "done"
          /\ result' = "ProcessExecutionError"
          /\ UNCHANGED inSnapshotVe
    /\ UNCHANGED <<op, disk_format, cloneState, deleteCalls, progress,
                   imageUpdated, exc, umountCalls, cvlog>>
    /\ UNCHANGED <<veVars, recVars, pipeVars>>
    /\ UNCHANGED opVars
    /\ UNCHANGED auxVars

\* glance.get_remote_image_service(...); snapshot_image_service.show(...)
SvImage ==
    /\ pc = "sv_image"
    /\ \/ pc' = "sv_uploading" /\ UNCHANGED exc
       \/ pc' = "snap_delete" /\ exc' = "ImageNotFound"
    /\ UNCHANGED <<op, result, snapRest>>
    /\ UNCHANGED <<veVars, recVars, pipeVars>>
    /\ UNCHANGED opVars
    /\ UNCHANGED auxVars

\* Variant: _snapshot_ve does not report the uploading checkpoint.
SvUploading_unreported ==
    /\ pc = "sv_uploading"
    /\ \/ pc' = "sv_boot_disk" /\ UNCHANGED exc
       \/ pc' = "snap_delete" /\ exc' = "UnexpectedTaskStateError"
    /\ UNCHANGED <<op, result, disk_format, cloneState, deleteCalls,
                   inSnapshotVe, progress, imageUpdated, umountCalls, cvlog>>
    /\ UNCHANGED <<veVars, recVars, pipeVars>>
    /\ UNCHANGED opVars
    /\ UNCHANGED auxVars

\* update_task_state(task_state=IMAGE_UPLOADING,
\*                   expected_state=IMAGE_PENDING_UPLOAD)
SvUploading ==
    /\ pc = "sv_uploading"
    /\ progress' = Append(progress, "IMAGE_UPLOADING")
    /\ \/ pc' = "sv_boot_disk" /\ UNCHANGED exc
       \/ pc' = "snap_delete" /\ exc' = "UnexpectedTaskStateError"
    /\ UNCHANGED <<op, result, disk_format, cloneState, deleteCalls,
                   inSnapshotVe, imageUpdated, umountCalls, cvlog>>
    /\ UNCHANGED <<veVars, recVars, pipeVars>>
    /\ UNCHANGED opVars
    /\ UNCHANGED auxVars

\* hdd = pcsutils.get_boot_disk(ve), then the branch on disk_format; the
\* cploop branch creates the CPloopUploader.
SvBootDisk ==
    /\ pc = "sv_boot_disk"
    /\ \E hdd_count \in 0..MaxDisks, bootdevs \in BootDevLists :
          IF get_boot_disk(veKind, hdd_count, bootdevs) = <<>>
          THEN /\ pc' = "snap_delete"
               /\ exc' = "Exception(boot disk)"
               /\ UNCHANGED <<job, cmds, srcLeft>>
          ELSE /\ UNCHANGED exc
               /\ IF disk_format = "ploop"
                  THEN /\ pc' = "sv_ploop_list"
                       /\ UNCHANGED <<job, cmds, srcLeft>>
                  ELSE IF disk_format = "cploop"
                  THEN /\ pc' = "pj_start1"
                       /\ job' = "uploader"
                       /\ cmds' = uploader_cmds
                       /\ srcLeft' \in 0..MaxData
                  ELSE /\ pc' = "cv_mount"
                       /\ UNCHANGED <<job, cmds, srcLeft>>
    /\ UNCHANGED <<op, result, snapRest>>
    /\ UNCHANGED <<veVars, recVars>>
    /\ UNCHANGED <<rets, msg, waitOutcome, plog, p1, p2, x1, x2, pipe1, pipe2>>
    /\ UNCHANGED opVars
    /\ UNCHANGED auxVars

\* ploop: 'ploop snapshot-list' and reading DiskDescriptor.xml
SvPloopList ==
    /\ pc = "sv_ploop_list"
    /\ \/ pc' = "sv_upload_file" /\ UNCHANGED exc
       \/ pc' = "snap_delete" /\ exc' \in {"ProcessExecutionError", "IOError"}
    /\ UNCHANGED <<op, result, snapRest>>
    /\ UNCHANGED <<veVars, recVars, pipeVars>>
    /\ UNCHANGED opVars
    /\ UNCHANGED auxVars

\* with open(...) as f: upload(...) of a plain file, then return
SvUploadFile ==
    /\ pc = "sv_upload_file"
    /\ pc' = "snap_delete"
    /\ \/ imageUpdated' = TRUE /\ UNCHANGED exc
       \/ exc' = "UploadError" /\ UNCHANGED imageUpdated
    /\ UNCHANGED <<op, result, disk_format, cloneState, deleteCalls,
                   inSnapshotVe, progress, umountCalls, cvlog>>
    /\ UNCHANGED <<veVars, recVars, pipeVars>>
    /\ UNCHANGED opVars
    /\ UNCHANGED auxVars

\* cploop: image_service.update reads a chunk of f = uploader.start()
UploadRead ==
    /\ pc = "sv_cploop_upload"
    /\ pipe2 > 0
    /\ pipe2' = pipe2 - 1
    /\ UNCHANGED <<op, pc, result, veVars, recVars, snapVars>>
    /\ UNCHANGED <<job, cmds, rets, msg, waitOutcome, plog, p1, p2, x1, x2,
                   srcLeft, pipe1>>
    /\ UNCHANGED opVars
    /\ UNCHANGED auxVars

\* update sees end of file and returns; the finally clause waits.
UploadEOF ==
    /\ pc = "sv_cploop_upload"
    /\ pipe2 = 0
    /\ p2 = "exited"
    /\ imageUpdated' = TRUE
    /\ pc' = "pj_wait1"
    /\ UNCHANGED <<op, result, disk_format, cloneState, deleteCalls,
                   inSnapshotVe, progress, exc, umountCalls, cvlog>>
    /\ UNCHANGED <<veVars, recVars, pipeVars>>
    /\ UNCHANGED opVars
    /\ UNCHANGED auxVars

\* update raises; f stays open and unread while the finally clause waits.
UploadFails ==
    /\ pc = "sv_cploop_upload"
    /\ exc' = "UploadError"
    /\ pc' = "pj_wait1"
    /\ UNCHANGED <<op, result, snapRest>>
    /\ UNCHANGED <<veVars, recVars, pipeVars>>
    /\ UNCHANGED opVars
    /\ UNCHANGED auxVars

\* What the mount command leaves in the record: its exit code ret and
\* whether its output holds a 'dev=' match.
mount_events(ret, dev) ==
    <<"mount">> \o (IF ret # 0 THEN <<"mount_failed">> ELSE <<>>)
                \o (IF dev THEN <<>> ELSE <<"mount_no_dev">>)

\* Variant: a non-zero exit code of the mount raises before the try block.
CvMount_checked ==
    /\ pc = "cv_mount"
    /\ \/ \E ret \in ExitCodes, dev \in BOOLEAN :
             /\ cvlog' = cvlog \o mount_events(ret, dev)
             /\ IF ret # 0
                THEN pc' = "snap_delete" /\ exc' = "Exception(ploop mount)"
                ELSE IF dev
                THEN pc' = "cv_convert" /\ UNCHANGED exc
                ELSE pc' = "cv_umount" /\ exc' = "Exception(Invalid output)"
       \/ /\ pc' = "snap_delete"
          /\ cvlog' = cvlog \o <<"mount", "mount_not_run">>
          /\ exc' = "OSError"
    /\ UNCHANGED <<op, result, disk_format, cloneState, deleteCalls,
                   inSnapshotVe, progress, imageUpdated, umountCalls>>
    /\ UNCHANGED <<veVars, recVars, pipeVars>>
    /\ UNCHANGED opVars
    /\ UNCHANGED auxVars

\* ret, out = getstatusoutput(cmd): Popen may raise before the try block;
\* otherwise only the output is looked at, inside the try block.
CvMount ==
    /\ pc = "cv_mount"
    /\ \/ \E ret \in ExitCodes, dev \in BOOLEAN :
             /\ cvlog' = cvlog \o mount_events(ret, dev)
             /\ IF dev
                THEN pc' = "cv_convert" /\ UNCHANGED exc
                ELSE pc' = "cv_umount" /\ exc' = "Exception(Invalid output)"
       \/ /\ pc' = "snap_delete"
          /\ cvlog' = cvlog \o <<"mount", "mount_not_run">>
          /\ exc' = "OSError"
    /\ UNCHANGED <<op, result, disk_format, cloneState, deleteCalls,
                   inSnapshotVe, progress, imageUpdated, umountCalls>>
    /\ UNCHANGED <<veVars, recVars, pipeVars>>
    /\ UNCHANGED opVars
    /\ UNCHANGED auxVars

\* Variant: the convert failure leaves convert_image without the umount.
CvConvert_nofinally ==
    /\ pc = "cv_convert"
    /\ \/ /\ pc' = "cv_umount"
          /\ cvlog' = Append(cvlog, "convert")
          /\ UNCHANGED exc
       \/ /\ pc' = "snap_delete"
          /\ cvlog' = cvlog \o <<"convert", "convert_failed">>
          /\ exc' = "Exception(qemu-img returned)"
    /\ UNCHANGED <<op, result, disk_format, cloneState, deleteCalls,
                   inSnapshotVe, progress, imageUpdated, umountCalls>>
    /\ UNCHANGED <<veVars, recVars, pipeVars>>
    /\ UNCHANGED opVars
    /\ UNCHANGED auxVars

\* system_exc(qemu-img convert ...)
CvConvert ==
    /\ pc = "cv_convert"
    /\ pc' = "cv_umount"
    /\ \/ /\ cvlog' = Append(cvlog, "convert")
          /\ UNCHANGED exc
       \/ /\ cvlog' = cvlog \o <<"convert", "convert_failed">>
          /\ exc' = "Exception(qemu-img returned)"
    /\ UNCHANGED <<op, result, disk_format, cloneState, deleteCalls,
                   inSnapshotVe, progress, imageUpdated, umountCalls>>
    /\ UNCHANGED <<veVars, recVars, pipeVars>>
    /\ UNCHANGED opVars
    /\ UNCHANGED auxVars

\* finally: system_exc(ploop umount ...); its failure replaces whatever
\* the try block raised.
CvUmount ==
    /\ pc = "cv_umount"
    /\ umountCalls' = umountCalls + 1
    /\ \/ /\ cvlog' = Append(cvlog, "umount")
          /\ UNCHANGED exc
          /\ pc' = IF exc = "none" THEN "sv_upload_file" ELSE "snap_delete"
       \/ /\ cvlog' = cvlog \o <<"umount", "umount_failed">>
          /\ exc' = "Exception(ploop umount returned)"
          /\ pc' = "snap_delete"
    /\ UNCHANGED <<op, result, disk_format, cloneState, deleteCalls,
                   inSnapshotVe, progress, imageUpdated>>
    /\ UNCHANGED <<veVars, recVars, pipeVars>>
    /\ UNCHANGED opVars
    /\ UNCHANGED auxVars

\* Variant: the clone is deleted only when _snapshot_ve returned normally.
delete_runs_onsuccess(e) == e = "none"

\* finally: the delete runs whatever _snapshot_ve did.
delete_runs(e) == TRUE

\* finally: tmpl_ve.delete().wait()
SnapDelete ==
    /\ pc = "snap_delete"
    /\ pc' = "done"
    /\ IF delete_runs(exc)
       THEN /\ deleteCalls' = deleteCalls + 1
            /\ \/ /\ cloneState' = "deleted"
                  /\ result' = IF exc = "none" THEN "ok" ELSE exc
               \/ /\ result' = "PrlSDKError"
                  /\ UNCHANGED cloneState
       ELSE /\ result' = exc
            /\ UNCHANGED <<deleteCalls, cloneState>>
    /\ UNCHANGED <<op, disk_format, inSnapshotVe, progress, imageUpdated,
                   exc, umountCalls, cvlog>>
    /\ UNCHANGED <<veVars, recVars, pipeVars>>
    /\ UNCHANGED opVars
    /\ UNCHANGED auxVars

\* The operation has returned or raised; the worker takes the next request.
Return ==
    /\ pc = "done"
    /\ op' = "idle"
    /\ pc' = "idle"
    /\ result' = "none"
    /\ target' = "none"
    /\ kill' = FALSE
    /\ state' = "none"
    /\ todo' = <<>>
    /\ log' = <<>>
    /\ polledTerminal' = FALSE
    /\ slept' = FALSE
    /\ entryState' = "none"
    /\ req_state' = "none"
    /\ disk_format' = "none"
    /\ cloneState' = "none"
    /\ deleteCalls' = 0
    /\ inSnapshotVe' = FALSE
    /\ progress' = <<>>
    /\ imageUpdated' = FALSE
    /\ exc' = "none"
    /\ umountCalls' = 0
    /\ cvlog' = <<>>
    /\ job' = "none"
    /\ cmds' = <<>>
    /\ p1' = "none"
    /\ p2' = "none"
    /\ x1' = 0
    /\ x2' = 0
    /\ rets' = <<>>
    /\ msg' = <<>>
    /\ waitOutcome' = "none"
    /\ plog' = <<>>
    /\ srcLeft' = 0
    /\ pipe1' = 0
    /\ pipe2' = 0
    /\ lookup' = "none"
    /\ reboot_type' = "none"
    /\ observed' = "none"
    /\ network_info' = 0
    /\ volumes' = 0
    /\ after' = <<>>
    /\ oplog' = <<>>
    /\ ticks' = 0
    /\ UNCHANGED <<veKind, veState>>
    /\ UNCHANGED auxVars

Next ==
    \/ Background
    \/ BeginSync
    \/ BeginPause
    \/ BeginUnpause
    \/ BeginSuspend
    \/ BeginPowerOff
    \/ BeginResume
    \/ BeginPowerOn
    \/ BeginUnplugVifs
    \/ BeginGetInfo
    \/ BeginDestroy
    \/ BeginReboot
    \/ BeginApplyFlavor
    \/ BeginSetBootDevice
    \/ BeginGetVncConsole
    \/ BeginResetNetwork
    \/ RebootGetState
    \/ StmtCall
    \/ StmtReconcile
    \/ StmtsDone
    \/ WaitPoll
    \/ GetStateFails
    \/ ReadState
    \/ IssueCall
    \/ IssueCallFails
    \/ ReconcileReturns
    \/ BeginCompress
    \/ BeginUncompress
    \/ PjOpen
    \/ PjStart1
    \/ PjStart1Fails
    \/ PjStart2
    \/ PjStart2Fails
    \/ PjStart2Unbound
    \/ P1Write
    \/ P1Finish
    \/ P1Dies
    \/ P2Move
    \/ P2Finish
    \/ P2Dies
    \/ PjWait1
    \/ PjWait2
    \/ BeginSnapshot
    \/ SnapLookup
    \/ SnapPending
    \/ SnapClone
    \/ SnapChown
    \/ SvImage
    \/ SvUploading
    \/ SvBootDisk
    \/ SvPloopList
    \/ SvUploadFile
    \/ UploadRead
    \/ UploadEOF
    \/ UploadFails
    \/ CvMount
    \/ CvConvert
    \/ CvUmount
    \/ SnapDelete
    \/ Return

Spec == Init /\ [][Next]_vars

\* The worker thread keeps running while it is not blocked, both stage
\* processes keep running while they can read and write, and the hypervisor
\* keeps resolving transitional states.  Failures are not forced.
WorkerStep ==
    \/ WaitPoll \/ ReadState \/ IssueCall \/ IssueCallFails
    \/ ReconcileReturns
    \/ RebootGetState \/ StmtCall \/ StmtReconcile \/ StmtsDone
    \/ PjOpen \/ PjStart1 \/ PjStart2 \/ PjStart2Unbound
    \/ PjWait1 \/ PjWait2
    \/ SnapLookup \/ SnapPending \/ SnapClone \/ SnapChown \/ SvImage
    \/ SvUploading \/ SvBootDisk \/ SvPloopList \/ SvUploadFile
    \/ UploadRead \/ UploadEOF \/ UploadFails
    \/ CvMount \/ CvConvert \/ CvUmount \/ SnapDelete

P1Step == P1Write \/ P1Finish \/ (P1Dies /\ p2 = "exited")

P2Step == P2Move \/ P2Finish

FairSpec ==
    /\ Spec
    /\ WF_vars(WorkerStep)
    /\ WF_vars(P1Step)
    /\ WF_vars(P2Step)
    /\ WF_vars(Background)

\* ============================================ archive and compress stages
\* A disk payload is a sequence of bytes; the stages are the external
\* commands the builders start, told apart by their argv.
Bytes == {0, 1}

Payloads == UNION {[1..n -> Bytes] : n \in 0..MaxPayload}

\* Marks the archiver puts around the payload.
TarHeader == 2

TarTrailer == 3

\* What a stage writes when its input is not of its format.
BadStream == <<-1>>

\* tar cO: the payload between the marks of an archive.
tar_create(d) == <<TarHeader>> \o d \o <<TarTrailer>>

\* tar x: the payload of a well-formed archive.
tar_extract(a) ==
    IF Len(a) >= 2 /\ a[1] = TarHeader /\ a[Len(a)] = TarTrailer
    THEN SubSeq(a, 2, Len(a) - 1)
    ELSE BadStream

\* prlcompress -p: every byte but the first is replaced by its difference
\* from the byte before it.
prlcompress_p(d) ==
    IF d = BadStream THEN BadStream
    ELSE [i \in 1..Len(d) |->
             IF i = 1 THEN d[1] ELSE (d[i] + 4 - d[i - 1]) % 4]

\* prlcompress -u: the running sum of the differences.
RECURSIVE prlcompress_u(_)
prlcompress_u(c) ==
    IF c = BadStream THEN BadStream
    ELSE IF Len(c) <= 1 THEN c
    ELSE LET front == prlcompress_u(SubSeq(c, 1, Len(c) - 1))
         IN Append(front, (front[Len(front)] + c[Len(c)]) % 4)

\* The command of a stage, after the words of the root helper.
stage_argv(argv) ==
    IF argv # <<>> /\ argv[1] \in (RootHelpers \ {""})
    THEN Tail(argv) ELSE argv

stage_apply(argv, data) ==
    LET a == stage_argv(argv)
    IN IF a[1] = "tar" /\ a[2] = "cO" THEN tar_create(data)
       ELSE IF a[1] = "tar" /\ a[2] = "x" THEN tar_extract(data)
       ELSE IF a[1] = "prlcompress" /\ a[2] = "-p" THEN prlcompress_p(data)
       ELSE IF a[1] = "prlcompress" /\ a[2] = "-u" THEN prlcompress_u(data)
       ELSE BadStream

\* A payload is encoded by compress_ploop or CPloopUploader and the result
\* is decoded by uncompress_ploop.
CodecInit ==
    /\ DriverInit
    /\ w2 = W2Idle(0, "PVT_VM", "STOPPED")
    /\ \E p \in Payloads, e \in {compress_cmds, uploader_cmds},
          h \in RootHelpers :
          codec = [step |-> 0, payload |-> p, stream |-> p, enc |-> e,
                   dec |-> uncompress_cmds(h)]

\* The next stage of the encoder reads the stream and writes its output.
CodecEncode ==
    /\ codec.step \in {0, 1}
    /\ codec' = [codec EXCEPT
                    !.step = @ + 1,
                    !.stream = stage_apply(codec.enc[codec.step + 1], @)]
    /\ UNCHANGED <<driverVars, w2>>

\* The next stage of the decoder.
CodecDecode ==
    /\ codec.step \in {2, 3}
    /\ codec' = [codec EXCEPT
                    !.step = @ + 1,
                    !.stream = stage_apply(codec.dec[codec.step - 1], @)]
    /\ UNCHANGED <<driverVars, w2>>

CodecNext == CodecEncode \/ CodecDecode

CodecSpec == CodecInit /\ [][CodecNext]_vars

\* ======================================================== second worker
\* A second worker runs _set_*_state on a VE handle of its own.  Field ve
\* says which VE the handle addresses: 2 is a VE of its own, whose state is
\* kept in the record, 1 is the VE of the first worker.
VeState2 == IF w2.ve = 1 THEN veState ELSE w2.veState

VeKind2 == IF w2.ve = 1 THEN veKind ELSE w2.veKind

\* The second worker goes on as rec and leaves the VE as it is.
Step2(rec) ==
    /\ w2' = rec
    /\ UNCHANGED <<driverVars, codec>>

\* One of the _set_*_state functions is entered by the second worker.
Begin2 ==
    /\ w2.pc = "idle"
    /\ \E t \in TerminalStates, k \in BOOLEAN :
          /\ k => t = "STOPPED"
          /\ Step2([w2 EXCEPT !.pc = "wait", !.result = "none",
                              !.target = t, !.kill = k, !.state = "none",
                              !.todo = <<>>, !.log = <<>>])

WaitPoll2 ==
    /\ w2.pc = "wait"
    /\ Step2([w2 EXCEPT !.pc = IF wait_done(VeState2) THEN "read"
                                 ELSE "wait"])

GetStateFails2 ==
    /\ w2.pc \in {"wait", "read"}
    /\ Step2([w2 EXCEPT !.pc = "done", !.result = "PrlSDKError"])

\* Variant: the state is read from the VE of the first worker.
ReadState2_shared ==
    /\ w2.pc = "read"
    /\ Step2([w2 EXCEPT !.pc = "act", !.state = veState,
                        !.todo = Branch(w2.target, veState, w2.kill)])

ReadState2 ==
    /\ w2.pc = "read"
    /\ Step2([w2 EXCEPT !.pc = "act", !.state = VeState2,
                        !.todo = Branch(w2.target, VeState2, w2.kill)])

IssueCall2 ==
    /\ w2.pc = "act"
    /\ w2.todo # <<>>
    /\ Accepts(Head(w2.todo), VeKind2, VeState2)
    /\ LET rec == [w2 EXCEPT !.log = Append(@, Head(w2.todo)),
                             !.todo = Tail(@)]
       IN IF w2.ve = 1
          THEN /\ w2' = rec
               /\ veState' = Effect(Head(w2.todo))
               /\ ticks' = 0
               /\ UNCHANGED <<veKind, op, pc, result, recVars, jobVars,
                              opVars>>
          ELSE /\ w2' = [rec EXCEPT !.veState = Effect(Head(w2.todo)),
                                    !.ticks = 0]
               /\ UNCHANGED driverVars
    /\ UNCHANGED codec

IssueCallFails2 ==
    /\ w2.pc = "act"
    /\ w2.todo # <<>>
    /\ Step2([w2 EXCEPT !.log = Append(@, Head(w2.todo)),
                        !.pc = "done", !.result = "PrlSDKError"])

ReconcileReturns2 ==
    /\ w2.pc = "act"
    /\ w2.todo = <<>>
    /\ Step2([w2 EXCEPT !.pc = "done", !.result = "ok"])

Return2 ==
    /\ w2.pc = "done"
    /\ Step2(W2Idle(w2.ve, w2.veKind, w2.veState))

\* The hypervisor resolves a transitional state of the second VE.
Background2 ==
    /\ w2.ve = 2
    /\ w2.pc = "wait"
    /\ w2.veState \in intermediate_states
    /\ \E s \in KindStates(w2.veKind) \ {w2.veState} :
          /\ s \in intermediate_states => w2.ticks < MaxTicks
          /\ Step2([w2 EXCEPT
                       !.veState = s,
                       !.ticks = IF s \in intermediate_states
                                 THEN w2.ticks + 1 ELSE 0])

\* States the second VE is found in.
Ve2States == TerminalStates \cup {"STARTING"}

\* The first worker runs _sync_ve_state on a VM found in a terminal state,
\* the second worker reconciles a VM of its own, which may be found in a
\* transitional state.
TwoVeInit ==
    /\ DriverInit
    /\ veKind = "PVT_VM"
    /\ veState \in TerminalStates
    /\ codec = CodecIdle
    /\ \E s \in Ve2States : w2 = W2Idle(2, "PVT_VM", s)

Worker1 ==
    \/ BeginSync
    \/ WaitPoll
    \/ GetStateFails
    \/ ReadState
    \/ IssueCall
    \/ IssueCallFails
    \/ ReconcileReturns
    \/ Return

Worker2 ==
    \/ Begin2
    \/ WaitPoll2
    \/ GetStateFails2
    \/ ReadState2
    \/ IssueCall2
    \/ IssueCallFails2
    \/ ReconcileReturns2
    \/ Return2

TwoVeNext == Worker1 \/ Worker2 \/ Background2

TwoVeSpec == TwoVeInit /\ [][TwoVeNext]_vars

\* Both workers are handed the same VM, found in a terminal state.
SameVeInit ==
    /\ DriverInit
    /\ veKind = "PVT_VM"
    /\ veState \in TerminalStates
    /\ codec = CodecIdle
    /\ w2 = W2Idle(1, "PVT_VM", "STOPPED")

SameVeNext == Worker1 \/ Worker2

SameVeSpec == SameVeInit /\ [][SameVeNext]_vars

\* ===================================================== checked properties
IsPrefix(a, b) == Len(a) <= Len(b) /\ a = SubSeq(b, 1, Len(a))

\* The table of section 4.1, cell (observed, target), with the stop mode of
\* the caller; "resume" of a paused VE is the start call (resume(=start)).
TableStop(k) == IF k THEN "stop_ex(PSM_KILL)" ELSE "stop_ex(PSM_ACPI)"

TableCell(s, t, k) ==
    CASE s = t -> <<>>
      [] s = "STOPPED"   /\ t = "RUNNING"   -> <<"start">>
      [] s = "PAUSED"    /\ t = "RUNNING"   -> <<"start">>
      [] s = "SUSPENDED" /\ t = "RUNNING"   -> <<"resume">>
      [] s = "RUNNING"   /\ t = "STOPPED"   -> <<TableStop(k)>>
      [] s = "PAUSED"    /\ t = "STOPPED"   -> <<"start", TableStop(k)>>
      [] s = "SUSPENDED" /\ t = "STOPPED"   -> <<"resume", TableStop(k)>>
      [] s = "RUNNING"   /\ t = "PAUSED"    -> <<"pause">>
      [] s = "STOPPED"   /\ t = "PAUSED"    -> <<"start", "pause">>
      [] s = "SUSPENDED" /\ t = "PAUSED"    -> <<"resume", "pause">>
      [] s = "RUNNING"   /\ t = "SUSPENDED" -> <<"suspend">>
      [] s = "STOPPED"   /\ t = "SUSPENDED" -> <<"start", "suspend">>
      [] s = "PAUSED"    /\ t = "SUSPENDED" -> <<"start", "suspend">>

Reconciling == target \in TerminalStates

\* C1: for every observed terminal state s and target t, the calls reconcile
\* has made are at every moment a prefix of table cell (s, t), and when it
\* returns without error they are exactly that cell, in order, every stop
\* carrying the mode of the caller.
C1_TableSequence ==
    (Reconciling /\ state \in TerminalStates) =>
        /\ IsPrefix(log, TableCell(state, target, kill))
        /\ (pc = "done" /\ result = "ok") =>
               log = TableCell(state, target, kill)

C1_Witness ==
    /\ Reconciling /\ pc = "done" /\ result = "ok"
    /\ state = "SUSPENDED" /\ target = "STOPPED" /\ kill
    /\ log = <<"resume", "stop_ex(PSM_KILL)">>

\* C2: when a reconcile call with target t returns without error, the state
\* the VE reports is t, whatever the state at entry and however the
\* hypervisor resolved transitional states meanwhile.
C2_ReachesTarget ==
    (Reconciling /\ pc = "done" /\ result = "ok") => veState = target

C2_Witness ==
    /\ Reconciling /\ pc = "done" /\ result = "ok"
    /\ entryState \in intermediate_states
    /\ Len(log) = 2
    /\ veState = "PAUSED"

\* C3: when the VE is in a transitional state at the call, every hypervisor
\* mutation call of reconcile is made after a poll of the wait loop has
\* returned a terminal state.
C3_NoActionBeforeTerminalPoll ==
    [][(entryState \in intermediate_states /\ Len(log') > Len(log))
          => polledTerminal]_vars

C3_Witness ==
    /\ Reconciling /\ entryState \in intermediate_states
    /\ slept /\ polledTerminal
    /\ log # <<>>

\* C4: _sync_ve_state with power_state NOSTATE returns at once, makes no
\* hypervisor mutation call and changes nothing of the VE (its state moves
\* only by the hypervisor's own background transitions).
C4_NoStateIsNoOp ==
    [][(op' = "sync" /\ req_state' = "NOSTATE") =>
          /\ pc' = "done" /\ result' = "ok"
          /\ log' = <<>>
          /\ (veState' = veState \/ Background)
          /\ veKind' = veKind]_vars

C4_Witness ==
    /\ op = "sync" /\ req_state = "NOSTATE" /\ pc = "done"
    /\ veState = "RUNNING"

\* C5: a request for the Paused target, or an unpause, on a container always
\* fails with the capability error and makes no hypervisor mutation call, on
\* each of pause, unpause and _sync_ve_state(PAUSED).
PauseRequestOnContainer ==
    /\ veKind = "PVT_CT"
    /\ \/ op \in {"pause", "unpause"} /\ lookup = "found"
       \/ op = "sync" /\ req_state = "PAUSED"

C5_ContainerPauseRejected ==
    PauseRequestOnContainer =>
        /\ log = <<>>
        /\ pc = "done" => result = "NotImplementedError"

\* C6: in a snapshot job that reached _snapshot_ve the clone delete is
\* called at most once while the job runs and exactly once by the time the
\* job has returned or raised, whether _snapshot_ve returned or raised.
C6_DeleteExactlyOnce ==
    (op = "snapshot" /\ inSnapshotVe) =>
        /\ deleteCalls <= 1
        /\ pc = "done" => deleteCalls = 1

C6_Witness ==
    /\ op = "snapshot" /\ inSnapshotVe /\ pc = "done"
    /\ disk_format = "cploop" /\ exc = "UploadError"
    /\ deleteCalls = 1

\* C7: snapshot never returns or raises with the clone created and not
\* deleted, the failure of the chown before _snapshot_ve included.
C7_CloneNeverLeft ==
    (op = "snapshot" /\ pc = "done") => cloneState # "created"

\* C8: in the cploop path, once the clone is created snapshot eventually
\* returns or raises, and once _snapshot_ve is entered the clone delete is
\* eventually called, also when the upload fails with pipeline output unread.
C8_SnapshotTerminates ==
    /\ (op = "snapshot" /\ disk_format = "cploop" /\ cloneState = "created")
          ~> (pc = "done")
    /\ (op = "snapshot" /\ disk_format = "cploop" /\ inSnapshotVe)
          ~> (deleteCalls > 0)

\* C9: when the wait of a pipe job has ended, both exit codes have been
\* collected and it raised exactly when one of them is not zero; a pipe
\* builder that returns normally had both stages exit 0.
C9_NoMisleadingSuccess ==
    /\ waitOutcome # "none" =>
          /\ Len(rets) = 2
          /\ (waitOutcome = "raised") <=> (rets[1] # 0 \/ rets[2] # 0)
    /\ (op \in {"compress_ploop", "uncompress_ploop"}
          /\ pc = "done" /\ result = "ok") => rets = <<0, 0>>

C9_Witness ==
    /\ job = "compress" /\ waitOutcome = "raised"
    /\ rets[1] = 2 /\ rets[2] = 0
    /\ pc = "done" /\ result = "Exception(msg)"

\* C10: the failure message of a pipe job names, each once with its argv
\* and exit code, exactly the stages whose exit code is not zero.
Named == {[argv |-> msg[i].argv, code |-> msg[i].code] : i \in 1..Len(msg)}

Failed == {[argv |-> cmds[k], code |-> rets[k]] :
              k \in {j \in 1..2 : rets[j] # 0}}

C10_NamesFailingStages ==
    waitOutcome # "none" =>
        /\ Named = Failed
        /\ Len(msg) = Cardinality(Failed)

C10_Witness ==
    /\ waitOutcome = "raised"
    /\ rets = <<0, 2>>
    /\ Len(msg) = 1
    /\ msg[1].argv = cmds[2] /\ msg[1].code = 2

\* C11: in every pipe builder, when the first stage failed to start no
\* spawn of the second stage is attempted.
Events(l) == {l[i] : i \in 1..Len(l)}

C11_NoSecondSpawnAfterFirstFails ==
    "spawn1_failed" \in Events(plog) => "spawn2" \notin Events(plog)

C11_Witness ==
    /\ job = "compress" /\ p1 = "unbound"
    /\ pc = "done" /\ plog = <<"spawn1", "spawn1_failed">>

\* C12: when the second stage fails to start after the first was started,
\* the first stage has been killed and waited on, in that order, by the time
\* the start failure leaves the builder, and no stage is running then.
C12_FirstStageReaped ==
    "spawn2_failed" \in Events(plog) =>
        /\ plog = <<"spawn1", "spawn2", "spawn2_failed", "kill1", "wait1">>
        /\ p1 = "exited"
        /\ p2 = "none"
        /\ pc \in {"done", "snap_delete"}

C12_Witness ==
    /\ job = "uploader" /\ "spawn2_failed" \in Events(plog)
    /\ p1 = "exited" /\ x1 = -9
    /\ pc = "snap_delete" /\ exc = "OSError"

\* C13: when a stage of a pipe job fails to start, the error that leaves the
\* builder is that start failure (OSError), in every builder; in
\* compress_ploop the failure of the first stage is not swallowed or replaced.
StartFailed ==
    "spawn1_failed" \in Events(plog) \/ "spawn2_failed" \in Events(plog)

C13_StartFailurePropagates ==
    /\ (StartFailed /\ job \in {"compress", "uncompress"})
          => (pc = "done" /\ result = "OSError")
    /\ (StartFailed /\ job = "uploader" /\ pc = "snap_delete")
          => exc = "OSError"

\* C14: in convert_image, when the mount gave a device and the convert
\* fails, the umount is run exactly once, after the convert, and when that
\* umount succeeds the error leaving convert_image is the convert error.
Count(l, e) == Cardinality({i \in 1..Len(l) : l[i] = e})

ConvertImageLeft == pc \in {"snap_delete", "done"}

C14_UmountAfterConvertFailure ==
    ("convert_failed" \in Events(cvlog) /\ ConvertImageLeft) =>
        /\ Count(cvlog, "umount") = 1
        /\ umountCalls = 1
        /\ \E i, j \in 1..Len(cvlog) :
              i < j /\ cvlog[i] = "convert" /\ cvlog[j] = "umount"
        /\ ("umount_failed" \notin Events(cvlog) /\ pc = "snap_delete")
              => exc = "Exception(qemu-img returned)"

C14_Witness ==
    /\ pc = "snap_delete"
    /\ cvlog = <<"mount", "convert", "convert_failed", "umount">>
    /\ exc = "Exception(qemu-img returned)"

\* C15: once a failure is propagating out of the snapshot job, a cleanup
\* step that fails (umount in convert_image, uploader.wait(), clone delete)
\* does not take its place: the propagating error stays the primary failure
\* and is the one snapshot raises.
C15_PrimaryFailureSurfaces ==
    [][(op = "snapshot" /\ op' = "snapshot" /\ exc # "none") =>
          /\ exc' = exc
          /\ pc' = "done" => result' = exc]_vars

\* C16: when _get_ve_by_name reports the VE absent, destroy and unplug_vifs
\* return normally without any further call, and get_info, power_on,
\* power_off, suspend, resume and reboot raise InstanceNotFound.
TeardownCallers == {"destroy", "unplug_vifs"}

OperateCallers ==
    {"get_info", "power_on", "power_off", "suspend", "resume", "reboot"}

C16_AbsentVeHandling ==
    (lookup = "absent" /\ pc = "done") =>
        /\ op \in TeardownCallers =>
              (result = "ok" /\ oplog = <<>> /\ log = <<>>)
        /\ op \in OperateCallers =>
              (result = "InstanceNotFound" /\ oplog = <<>> /\ log = <<>>)

\* C17: when resume, unpause, pause, power_on or reboot returns normally
\* with the VE Running or Paused, every vif of network_info has been plugged
\* after the last state-changing call of the operation.
PluggingOps == {"resume", "unpause", "pause", "power_on", "reboot"}

StateChanging == MutationCalls \cup {"restart"}

LastChange(l) ==
    LET S == {i \in 1..Len(l) : l[i] \in StateChanging}
    IN IF S = {} THEN 0 ELSE CHOOSE i \in S : \A j \in S : j <= i

PlugsAfterLastChange(l) ==
    Cardinality({i \in 1..Len(l) :
                    l[i] = "vif_driver.plug" /\ i > LastChange(l)})

C17_PluggedBeforeReturn ==
    (/\ op \in PluggingOps
     /\ pc = "done"
     /\ result = "ok"
     /\ veState \in {"RUNNING", "PAUSED"}) =>
        PlugsAfterLastChange(oplog) = network_info

\* C18: reboot issues one restart, and no stop or start, exactly when it
\* read the state Running and the type is SOFT; otherwise it issues no
\* restart and runs _set_stopped_state (kill for a type other than SOFT)
\* and then _set_started_state, in that order.
IsReconcileStmt(e) == e \in ReconcileStmts

RebootCycle(rt) ==
    <<IF rt = "SOFT" THEN "_set_stopped_state(False)"
      ELSE "_set_stopped_state(True)",
      "_set_started_state">>

C18_RebootBranch ==
    (op = "reboot" /\ observed # "none") =>
        IF observed = "RUNNING" /\ reboot_type = "SOFT"
        THEN /\ Events(oplog) \subseteq {"restart", "vif_driver.plug"}
             /\ Count(oplog, "restart") <= 1
             /\ pc = "done" => Count(oplog, "restart") = 1
        ELSE /\ "restart" \notin Events(oplog)
             /\ oplog # <<>> /\ oplog[1] = RebootCycle(reboot_type)[1]
             /\ IsPrefix(SelectSeq(oplog, IsReconcileStmt),
                         RebootCycle(reboot_type))
             /\ (pc = "done" /\ result = "ok") =>
                   SelectSeq(oplog, IsReconcileStmt) = RebootCycle(reboot_type)
             /\ reboot_type = "SOFT" =>
                   "stop_ex(PSM_KILL)" \notin Events(oplog)
             /\ reboot_type # "SOFT" =>
                   "stop_ex(PSM_ACPI)" \notin Events(oplog)

C18_Witness ==
    /\ op = "reboot"
    /\ pc = "done"
    /\ result = "ok"
    /\ observed = "RUNNING"
    /\ reboot_type = "SOFT"
    /\ oplog = <<"restart", "vif_driver.plug">>

\* C19: a _set_*_state call that began with the VE in a terminal state and
\* fails on one of its hypervisor calls leaves the VE in the state it had
\* when the call began.
ReconcileCallFailed == Reconciling /\ pc = "done" /\ todo # <<>>

C19_NoPartialState ==
    (ReconcileCallFailed /\ entryState \in TerminalStates) =>
        veState = entryState

\* C20: a snapshot call that fails has not updated the image store: when
\* snapshot raises, image_service.update() has not returned normally for
\* the image of this call.
C20_NoImageAfterFailure ==
    (op = "snapshot" /\ pc = "done" /\ result # "ok") => ~imageUpdated

\* C21: when a hypervisor call of a _set_*_state function fails, the caller
\* gets the SDK error of that call, the failed call has been made once, and
\* no call that follows it in the table cell has been made.
C21_CallFailurePropagates ==
    ReconcileCallFailed =>
        /\ result = "PrlSDKError"
        /\ log # <<>>
        /\ log[Len(log)] = Head(todo)
        /\ Count(log, Head(todo)) = 1
        /\ IsPrefix(log, TableCell(state, target, kill))
        /\ \A i \in 2..Len(todo) : todo[i] \notin Events(log)

C21_Witness ==
    /\ ReconcileCallFailed
    /\ state = "SUSPENDED" /\ target = "STOPPED"
    /\ result = "PrlSDKError"
    /\ log = <<"resume">>
    /\ todo = <<"resume", "stop_ex(PSM_ACPI)">>

\* C24: in a snapshot job on an existing VE the pending checkpoint is
\* reported exactly once, before the clone is created; the uploading
\* checkpoint at most once, after the pending one, once the clone exists and
\* before the image store is called; a job that returns normally has
\* reported both.
Checkpoints == <<"IMAGE_PENDING_UPLOAD", "IMAGE_UPLOADING">>

C24_ProgressCheckpoints ==
    op = "snapshot" =>
        /\ IsPrefix(progress, Checkpoints)
        /\ cloneState # "none" => Count(progress, "IMAGE_PENDING_UPLOAD") = 1
        /\ (pc = "done" /\ lookup = "found") =>
              Count(progress, "IMAGE_PENDING_UPLOAD") = 1
        /\ "IMAGE_UPLOADING" \in Events(progress) => cloneState # "none"
        /\ (inSnapshotVe /\ pc \notin {"sv_image", "sv_uploading",
                                       "snap_delete", "done"}) =>
              progress = Checkpoints
        /\ imageUpdated => progress = Checkpoints
        /\ (pc = "done" /\ result = "ok") => progress = Checkpoints

C24_Witness ==
    /\ op = "snapshot"
    /\ pc = "done"
    /\ result = "ok"
    /\ imageUpdated
    /\ cloneState = "deleted"
    /\ progress = Checkpoints

\* C28 as stated: every call of convert_image runs the umount exactly once,
\* and when the mount failed or printed no device path the caller gets the
\* invalid-output error whenever the umount succeeds.
ConvertImageReturned ==
    cvlog # <<>> /\ pc \notin {"cv_mount", "cv_convert", "cv_umount"}

MountWentWrong ==
    \/ "mount_failed" \in Events(cvlog)
    \/ "mount_no_dev" \in Events(cvlog)
    \/ "mount_not_run" \in Events(cvlog)

C28_UmountOnEveryCall ==
    ConvertImageReturned =>
        /\ Count(cvlog, "umount") = 1
        /\ (/\ MountWentWrong
            /\ "umount_failed" \notin Events(cvlog)
            /\ pc = "snap_delete") => exc = "Exception(Invalid output)"

\* C28 amended: every call of convert_image in which the mount command was
\* started runs the umount exactly once, whatever the exit code of the
\* mount; when the output of the mount holds no device path no convert is
\* run and the caller gets the invalid-output error whenever the umount
\* succeeds; when the mount command could not be started there is no umount.
C28_UmountOncePerStartedMount ==
    ConvertImageReturned =>
        IF "mount_not_run" \in Events(cvlog)
        THEN Count(cvlog, "umount") = 0 /\ umountCalls = 0
        ELSE /\ Count(cvlog, "umount") = 1
             /\ umountCalls = 1
             /\ "mount_no_dev" \in Events(cvlog) =>
                   /\ "convert" \notin Events(cvlog)
                   /\ ("umount_failed" \notin Events(cvlog)
                          /\ pc = "snap_delete") =>
                         exc = "Exception(Invalid output)"

C28_Witness ==
    /\ pc = "snap_delete"
    /\ cvlog = <<"mount", "mount_failed", "mount_no_dev", "umount">>
    /\ umountCalls = 1
    /\ exc = "Exception(Invalid output)"

\* C29: destroy of an existing VE unplugs the vifs, then runs
\* _set_stopped_state with kill, then disconnects every volume, then deletes
\* the VE; the delete is issued at most once and only when every step before
\* it was completed without error.
DestroySteps ==
    {"vif_driver.unplug", "_set_stopped_state(True)", "disconnect_volume",
     "delete"}

IsDestroyStep(e) == e \in DestroySteps

DestroyOrder(n, v) ==
    [i \in 1..(n + v + 2) |->
        IF i <= n THEN "vif_driver.unplug"
        ELSE IF i = n + 1 THEN "_set_stopped_state(True)"
        ELSE IF i <= n + v + 1 THEN "disconnect_volume"
        ELSE "delete"]

C29_DestroyOrder ==
    (op = "destroy" /\ lookup = "found") =>
        /\ IsPrefix(SelectSeq(oplog, IsDestroyStep),
                    DestroyOrder(network_info, volumes))
        /\ Count(oplog, "delete") <= 1
        /\ "stop_ex(PSM_ACPI)" \notin Events(oplog)
        /\ "delete" \in Events(oplog) =>
              /\ oplog[Len(oplog)] = "delete"
              /\ veState = "STOPPED"
              /\ Count(oplog, "vif_driver.unplug") = network_info
              /\ Count(oplog, "disconnect_volume") = volumes
        /\ (pc = "done" /\ result = "ok") =>
              SelectSeq(oplog, IsDestroyStep)
                  = DestroyOrder(network_info, volumes)

C29_Witness ==
    /\ op = "destroy"
    /\ pc = "done"
    /\ result = "ok"
    /\ network_info = 1
    /\ volumes = 1
    /\ oplog = <<"vif_driver.unplug", "_set_stopped_state(True)",
                 "stop_ex(PSM_KILL)", "disconnect_volume", "delete">>

\* C22: with every transitional state of the VE resolving in the end, a
\* running _set_*_state call eventually returns or raises; and while the VE
\* is in an intermediate state the wait loop makes no hypervisor call other
\* than the state poll and leaves only with the SDK error of a failed poll,
\* never with a timeout.
InReconcile == Reconciling /\ pc \in {"wait", "read", "act"}

C22_ReconcileTerminates ==
    /\ InReconcile ~> (pc \in {"done", "stmt"})
    /\ [][(pc = "wait" /\ veState \in intermediate_states) =>
            /\ log' = log
            /\ oplog' = oplog
            /\ \/ pc' = "wait" /\ result' = result
               \/ pc' = "done" /\ result' = "PrlSDKError"]_vars

C22_Witness ==
    /\ Reconciling
    /\ pc = "done"
    /\ result = "ok"
    /\ entryState \in intermediate_states
    /\ slept
    /\ polledTerminal
    /\ log # <<>>

\* C25: in _apply_flavor, _reset_network, _set_boot_device and
\* get_vnc_console every call that changes a configuration field is made
\* after a begin_edit and before the commit that follows it, and when the
\* function returns or raises every edit it began has been committed.
EditOps ==
    {"_apply_flavor", "_reset_network", "_set_boot_device", "get_vnc_console"}

InsideEdit(l, i) ==
    \E b \in 1..(i - 1) :
        /\ l[b] = "begin_edit"
        /\ \A j \in (b + 1)..(i - 1) : l[j] # "commit"

\* The begin_edit at position b went through and no commit follows it.
LeftOpen(l, b) ==
    /\ l[b] = "begin_edit"
    /\ ~(b = Len(l) /\ result # "ok")
    /\ \A j \in (b + 1)..Len(l) : l[j] # "commit"

C25_EditsBracketed ==
    op \in EditOps =>
        /\ \A i \in 1..Len(oplog) :
              oplog[i] \in EditSetters => InsideEdit(oplog, i)
        /\ pc = "done" => ~ \E b \in 1..Len(oplog) : LeftOpen(oplog, b)

\* C26: a payload encoded by the two stages of compress_ploop or of
\* CPloopUploader and then decoded by the two stages of uncompress_ploop
\* comes out as it went in.
C26_RoundTrip ==
    codec.step = 4 => codec.stream = codec.payload

C26_Witness ==
    /\ codec.step = 4
    /\ codec.payload = <<1, 0, 1>>
    /\ codec.enc = uploader_cmds
    /\ codec.dec[2][1] = "sudo"
    /\ codec.stream = <<1, 0, 1>>

\* State the VE is in after the calls made so far, starting from the state
\* that was read, when nothing else has acted on it.
Expected(l, s) == IF l = <<>> THEN s ELSE Effect(l[Len(l)])

Calls1InReadState ==
    Len(log') > Len(log) => veState = Expected(log, state)

Calls2InReadState ==
    Len(w2.log') > Len(w2.log) => VeState2 = Expected(w2.log, w2.state)

\* C23: when two workers reconcile two different VEs, every call of either
\* worker is issued on its own VE in the state its own calls have left it
\* in, a step of one worker changes nothing of the other worker or its VE,
\* and each worker that returns without error has made exactly the calls
\* of its table cell and left its own VE in the target state, as when it
\* runs alone.
C23_IndependentVes ==
    /\ []((Reconciling /\ pc = "done" /\ result = "ok") =>
            /\ log = TableCell(state, target, kill)
            /\ veState = target)
    /\ []((w2.pc = "done" /\ w2.result = "ok") =>
            /\ w2.log = TableCell(w2.state, w2.target, w2.kill)
            /\ w2.veState = w2.target)
    /\ [][/\ Calls1InReadState
          /\ Calls2InReadState
          /\ (w2' # w2) => UNCHANGED driverVars
          /\ (driverVars' # driverVars) => UNCHANGED w2]_vars

\* Both workers have made the two calls of a cell, each on its own VE.
C23_Witness ==
    /\ w2.ve = 2
    /\ pc = "act" /\ state = "SUSPENDED" /\ target = "STOPPED"
    /\ log = <<"resume", "stop_ex(PSM_KILL)">>
    /\ w2.pc = "act" /\ w2.state = "STOPPED" /\ w2.target = "PAUSED"
    /\ w2.log = <<"start", "pause">>
    /\ veState = "STOPPED" /\ w2.veState = "PAUSED"

\* C27: every call reconcile issues is issued while the VE is in the state
\* reconcile last read, as changed by its own earlier calls only.
C27_IssuedInReadState == [][Calls1InReadState]_vars

====
